---- MODULE Spec2Model ----
(***************************************************************************)
(* Model of app.py, the Streamlit dashboard script of GRP_NN.  One run of  *)
(* the script is one behaviour: the script is executed top to bottom and   *)
(* each section of it is one action.  A data frame is a list of column     *)
(* names, a row index and one list of cells per column.  A column name is  *)
(* the sequence of its characters, so that str.lower() and the substring   *)
(* test are computed and not looked up.  Cyrillic characters are written   *)
(* as their code points ("U+0433" is the small letter ghe).  Of the user   *)
(* interface the state keeps the st.error and st.warning calls, an         *)
(* uncaught exception, the values the sidebar controls return and the      *)
(* number of charts drawn.                                                 *)
(***************************************************************************)
EXTENDS Integers, Sequences, FiniteSets, TLC

\* ------------------------------------------------------------------ bounds
\* Largest number of data rows of a loaded sheet.
MaxRows == 3

\* ------------------------------------------------------------ column names
n_Year == <<"Y", "e", "a", "r">>
n_God == <<"U+0413", "U+043E", "U+0434">>
n_Date == <<"D", "a", "t", "e">>
n_tax_year == <<"t", "_", "y", "e", "a", "r">>
n_gody == <<"U+0433", "U+043E", "U+0434", "U+044B">>
n_year == <<"y", "e", "a", "r">>
n_god == <<"U+0433", "U+043E", "U+0434">>
n_date == <<"d", "a", "t", "e">>
n_real_GVA == <<"r", "e", "a", "l", "_", "G", "V", "A">>
n_real_support == <<"r", "e", "a", "l", "_", "s", "u", "p", "p", "o", "r", "t">>
n_real_subsidies == <<"r", "e", "a", "l", "_", "s", "u", "b", "s", "i", "d", "i", "e", "s">>
n_industry == <<"i", "n", "d", "u", "s", "t", "r", "y">>
n_region == <<"r", "e", "g", "i", "o", "n">>
n_sector == <<"s", "e", "c", "t", "o", "r">>
n_otrasl == <<"U+043E", "U+0442", "U+0440", "U+0430", "U+0441", "U+043B", "U+044C">>
n_region_ru == <<"U+0440", "U+0435", "U+0433", "U+0438", "U+043E", "U+043D">>

REQUIRED_COLS == <<n_real_GVA, n_real_support, n_real_subsidies>>

GroupCandidates == <<n_industry, n_region, n_sector, n_otrasl, n_region_ru>>

\* ------------------------------------------------------------- str helpers
UpperChars == <<"A", "B", "C", "D", "E", "F", "G", "H", "I", "J", "K", "L", "M",
                "N", "O", "P", "Q", "R", "S", "T", "U", "V", "W", "X", "Y", "Z",
                "U+0413", "U+041E", "U+0414">>
LowerChars == <<"a", "b", "c", "d", "e", "f", "g", "h", "i", "j", "k", "l", "m",
                "n", "o", "p", "q", "r", "s", "t", "u", "v", "w", "x", "y", "z",
                "U+0433", "U+043E", "U+0434">>

\* The lowercase of each uppercase character
ToLower ==
    [ch \in {UpperChars[i] : i \in 1..Len(UpperChars)} |->
        LowerChars[CHOOSE i \in 1..Len(UpperChars) : UpperChars[i] = ch]]

LowerChar(ch) == IF ch \in DOMAIN ToLower THEN ToLower[ch] ELSE ch

\* str.lower()
Lower(s) == [i \in 1..Len(s) |-> LowerChar(s[i])]

\* sub in s
Contains(s, sub) ==
    \E i \in 1..(Len(s) - Len(sub) + 1) : SubSeq(s, i, i + Len(sub) - 1) = sub

\* x in list
InSeq(x, seq) == \E i \in 1..Len(seq) : seq[i] = x

\* [x for x in seq if x in keep], order of seq
RECURSIVE SelectIdx(_, _)
SelectIdx(n, keep) ==
    IF n = 0 THEN <<>>
    ELSE IF n \in keep THEN Append(SelectIdx(n - 1, keep), n)
    ELSE SelectIdx(n - 1, keep)

\* ------------------------------------------------------------------- cells
\* A cell is a whole number, a text that is no number and no date ("n/a"), a
\* text that is a date ("2020-05-01"), or missing.
IntCell(n) == [k |-> "int", v |-> n]
TextCell == [k |-> "text", v |-> 0]
DateStrCell(y) == [k |-> "datestr", v |-> y]
NA == [k |-> "na", v |-> 0]

\* pd.to_numeric(x, errors="coerce"), one cell
ToNumericCell(c) == IF c.k = "int" THEN c ELSE NA

\* pd.to_datetime(x, errors="coerce").dt.year, one cell.  A number is taken
\* as nanoseconds since 1970-01-01T00:00: every number of the model is within
\* 2^31 ns (2.2 s) of the epoch, so its calendar year is 1970, or 1969 when
\* it is negative.
ToDatetimeYearCell(c) ==
    CASE c.k = "int" -> IntCell(IF c.v >= 0 THEN 1970 ELSE 1969)
      [] c.k = "datestr" -> IntCell(c.v)
      [] OTHER -> NA

\* ------------------------------------------------------------- data frames
NoFrame == [isNone |-> TRUE]

Frame(columns, index, data) ==
    [isNone |-> FALSE, columns |-> columns, index |-> index, data |-> data]

\* Position of the column called name
ColPos(columns, name) == CHOOSE i \in 1..Len(columns) : columns[i] = name

\* df[name]
Col(df, name) == df.data[ColPos(df.columns, name)]

\* df[name] = values: replaces the column, or adds it as the last one
SetColumn(df, name, values) ==
    IF InSeq(name, df.columns)
    THEN Frame(df.columns, df.index,
               [df.data EXCEPT ![ColPos(df.columns, name)] = values])
    ELSE Frame(Append(df.columns, name), df.index, Append(df.data, values))

MapCells(Op(_), cells) == [i \in 1..Len(cells) |-> Op(cells[i])]

\* df[mask]: the rows at the positions of keep, in order, with their labels
TakeRows(df, keep) ==
    LET pos == SelectIdx(Len(df.index), keep)
    IN  Frame(df.columns,
              [j \in 1..Len(pos) |-> df.index[pos[j]]],
              [c \in 1..Len(df.columns) |->
                   [j \in 1..Len(pos) |-> df.data[c][pos[j]]]])

\* df.dropna(subset=[name])
DropNa(df, name) ==
    TakeRows(df, {i \in 1..Len(df.index) : Col(df, name)[i].k # "na"})

\* ------------------------------------------------- _ensure_year_column
\* cols_lower = {c.lower(): c for c in df.columns}; a later column replaces
\* an earlier one with the same lowercased name.
HasLower(columns, key) == \E i \in 1..Len(columns) : Lower(columns[i]) = key

ColsLower(columns, key) ==
    LET I == {i \in 1..Len(columns) : Lower(columns[i]) = key}
    IN  columns[CHOOSE i \in I : \A j \in I : j <= i]

IsSubstrMatch(col) == Contains(Lower(col), n_year) \/ Contains(Lower(col), n_god)

FirstSubstrMatch(columns) ==
    LET I == {i \in 1..Len(columns) : IsSubstrMatch(columns[i])}
    IN  columns[CHOOSE i \in I : \A j \in I : i <= j]

\* YearSource with the "date" column tried before the "год" column.
YearSourceDateFirst(columns) ==
    IF HasLower(columns, n_year)
    THEN <<ColsLower(columns, n_year), "numeric">>
    ELSE IF HasLower(columns, n_date)
    THEN <<ColsLower(columns, n_date), "datetime">>
    ELSE IF HasLower(columns, n_god)
    THEN <<ColsLower(columns, n_god), "numeric">>
    ELSE IF \E i \in 1..Len(columns) : IsSubstrMatch(columns[i])
    THEN <<FirstSubstrMatch(columns), "numeric">>
    ELSE <<>>

\* The column _ensure_year_column reads and the parser it applies to it;
\* <<>> when it raises ValueError.
YearSource(columns) ==
    IF HasLower(columns, n_year)
    THEN <<ColsLower(columns, n_year), "numeric">>
    ELSE IF HasLower(columns, n_god)
    THEN <<ColsLower(columns, n_god), "numeric">>
    ELSE IF HasLower(columns, n_date)
    THEN <<ColsLower(columns, n_date), "datetime">>
    ELSE IF \E i \in 1..Len(columns) : IsSubstrMatch(columns[i])
    THEN <<FirstSubstrMatch(columns), "numeric">>
    ELSE <<>>

ParseYear(cells, how) ==
    IF how = "numeric" THEN MapCells(ToNumericCell, cells)
    ELSE MapCells(ToDatetimeYearCell, cells)

EnsureYearColumn(df) ==
    LET src == YearSource(df.columns)
    IN  SetColumn(df, n_year, ParseYear(Col(df, src[1]), src[2]))

\* ------------------------------------------------- ensure_required_columns
RECURSIVE MissingFrom(_, _)
MissingFrom(required, columns) ==
    IF required = <<>> THEN <<>>
    ELSE (IF InSeq(Head(required), columns) THEN <<>> ELSE <<Head(required)>>)
         \o MissingFrom(Tail(required), columns)

\* MissingRequired that reports the first missing column only.
MissingRequiredFirstOnly(columns) ==
    IF MissingFrom(REQUIRED_COLS, columns) = <<>> THEN <<>>
    ELSE <<Head(MissingFrom(REQUIRED_COLS, columns))>>

MissingRequired(columns) == MissingFrom(REQUIRED_COLS, columns)

\* ----------------------------------------------------------- coerce_numeric
RECURSIVE CoerceNumeric(_, _)
CoerceNumeric(df, cols) ==
    IF cols = <<>> THEN df
    ELSE CoerceNumeric(
             SetColumn(df, Head(cols), MapCells(ToNumericCell, Col(df, Head(cols)))),
             Tail(cols))

\* ------------------------------------------------------- extra_group_col
\* for candidate in [...]: if candidate in df.columns: take it and break.
\* <<>> stands for None.
RECURSIVE FirstCandidate(_, _)
FirstCandidate(candidates, columns) ==
    IF candidates = <<>> THEN <<>>
    ELSE IF InSeq(Head(candidates), columns) THEN Head(candidates)
    ELSE FirstCandidate(Tail(candidates), columns)

\* ExtraGroupCol without the break of line 110: the last candidate present.
RECURSIVE LastCandidate(_, _)
LastCandidate(candidates, columns) ==
    IF candidates = <<>> THEN <<>>
    ELSE IF InSeq(candidates[Len(candidates)], columns) THEN candidates[Len(candidates)]
    ELSE LastCandidate(SubSeq(candidates, 1, Len(candidates) - 1), columns)

ExtraGroupColLast(columns) == LastCandidate(GroupCandidates, columns)

ExtraGroupCol(columns) == FirstCandidate(GroupCandidates, columns)

\* YearPrep without the dropna of line 114.
YearPrepNoDrop(df) ==
    SetColumn(df, n_year, MapCells(ToDatetimeYearCell, Col(df, n_year)))

\* --------------------------------------------------------- year, bounds
\* lines 113-115: re-parse as datetime, drop the rows without year, cast
YearPrep(df) ==
    DropNa(SetColumn(df, n_year, MapCells(ToDatetimeYearCell, Col(df, n_year))),
           n_year)

YearValues(df) == [i \in 1..Len(df.index) |-> Col(df, n_year)[i].v]

SeqMin(s) == CHOOSE x \in {s[i] : i \in 1..Len(s)} : \A j \in 1..Len(s) : x <= s[j]
SeqMax(s) == CHOOSE x \in {s[i] : i \in 1..Len(s)} : \A j \in 1..Len(s) : x >= s[j]

\* RangeFilter with the upper bound exclusive.
RangeFilterExclusive(df, lo, hi) ==
    TakeRows(df, {i \in 1..Len(df.index) :
                      Col(df, n_year)[i].v >= lo /\ Col(df, n_year)[i].v < hi})

\* df[(df["year"] >= lo) & (df["year"] <= hi)].copy()
RangeFilter(df, lo, hi) ==
    TakeRows(df, {i \in 1..Len(df.index) :
                      Col(df, n_year)[i].v >= lo /\ Col(df, n_year)[i].v <= hi})

\* ------------------------------------------------------------------ inputs
\* Names a sheet may give its year-like columns, in any order.
YearNames == {n_year, n_Year, n_God, n_Date, n_tax_year, n_gody}

YearCols ==
    {<<>>} \cup {<<a>> : a \in YearNames}
           \cup {p \in YearNames \X YearNames : p[1] # p[2]}

PickNames(seq, S) ==
    LET pos == SelectIdx(Len(seq), S) IN [i \in 1..Len(pos) |-> seq[pos[i]]]

\* The other columns of a sheet: any of the required ones and, in a sheet
\* that has them all, at most two of the grouping columns.
OtherCols ==
    {PickNames(REQUIRED_COLS, p[1]) \o PickNames(GroupCandidates, p[2]) :
        p \in {q \in (SUBSET (1..Len(REQUIRED_COLS))) \X
                       (SUBSET (1..Len(GroupCandidates))) :
                  /\ Cardinality(q[2]) <= 2
                  /\ q[2] # {} => q[1] = 1..Len(REQUIRED_COLS)}}

CellValues == {IntCell(2019), IntCell(-1), TextCell, DateStrCell(2020)}

\* A cell other than c, so that two year-like columns of a sheet differ in
\* every row.
OtherCell(c) ==
    CASE c = IntCell(2019) -> IntCell(-1)
      [] c = IntCell(-1) -> TextCell
      [] c = TextCell -> DateStrCell(2020)
      [] OTHER -> IntCell(2019)

\* A sheet as pd.read_excel returns it: the other columns, then the
\* year-like ones; RangeIndex 0..n-1; the first year-like column holds any
\* cells, the second one differs from it in every row, the required columns
\* hold the number 1 and the grouping columns a text.  The sheets with a
\* grouping column have the one year-like column "year".
SheetOf(other, ycols, cells) ==
    Frame(other \o ycols,
          [i \in 1..Len(cells) |-> i - 1],
          [j \in 1..(Len(other) + Len(ycols)) |->
               IF j = Len(other) + 1 THEN cells
               ELSE IF j > Len(other) THEN MapCells(OtherCell, cells)
               ELSE IF InSeq(other[j], REQUIRED_COLS)
               THEN [i \in 1..Len(cells) |-> IntCell(1)]
               ELSE [i \in 1..Len(cells) |-> TextCell]])

CellLists == UNION {[1..n -> CellValues] : n \in 0..MaxRows}

Sheets ==
    {SheetOf(p[1], p[2], p[3]) :
        p \in {q \in OtherCols \X YearCols \X CellLists :
                  ExtraGroupCol(q[1]) # <<>> => q[2] = <<n_year>>}}

\* ------------------------------------------------------------------- state
VARIABLES
    pc,               \* the section of the script that runs next
    sheet,            \* the sheet as read (NoFrame before the read or without it)
    df,               \* df (NoFrame is None)
    messages,         \* st.error / st.warning calls and uncaught exceptions
    extra_group_col,  \* <<>> is None
    year_range,       \* <<year_min, year_max>>, <<>> before line 122
    selected_years,   \* <<lo, hi>>, <<>> before line 124
    color_by,         \* <<>> before line 132
    dff,              \* NoFrame before line 138
    charts,           \* number of st.plotly_chart calls
    selected_categories  \* the category selection; app.py offers none

vars == <<pc, sheet, df, messages, extra_group_col, year_range, selected_years,
          color_by, dff, charts, selected_categories>>

\* No category selection was made.
NoSelection == [given |-> FALSE, values |-> {}]
Selection(S) == [given |-> TRUE, values |-> S]

Msg(kind, text, names) == [kind |-> kind, text |-> text, names |-> names]

Init ==
    /\ pc = "input"
    /\ sheet = NoFrame
    /\ df = NoFrame
    /\ messages = <<>>
    /\ extra_group_col = <<>>
    /\ year_range = <<>>
    /\ selected_years = <<>>
    /\ color_by = <<>>
    /\ dff = NoFrame
    /\ charts = 0
    /\ selected_categories = NoSelection

\* lines 80-84: a file was uploaded; load_excel returns the sheet t or raises
LoadUploaded ==
    /\ pc = "input"
    /\ \/ \E t \in Sheets :
             /\ sheet' = t
             /\ df' = t
             /\ messages' = messages
       \/ /\ messages' = Append(messages, Msg("error", "read_uploaded_failed", <<>>))
          /\ UNCHANGED <<sheet, df>>
    /\ pc' = "resolve"
    /\ UNCHANGED <<extra_group_col, year_range, selected_years, color_by, dff, charts,
                   selected_categories>>

\* lines 85-90: no upload and Data.xlsx exists
LoadDefault ==
    /\ pc = "input"
    /\ \/ \E t \in Sheets :
             /\ sheet' = t
             /\ df' = t
             /\ messages' = messages
       \/ /\ messages' = Append(messages, Msg("error", "read_default_failed", <<>>))
          /\ UNCHANGED <<sheet, df>>
    /\ pc' = "resolve"
    /\ UNCHANGED <<extra_group_col, year_range, selected_years, color_by, dff, charts,
                   selected_categories>>

\* lines 91-93: no upload and no Data.xlsx
NoInput ==
    /\ pc = "input"
    /\ messages' = Append(messages, Msg("warning", "no_input", <<>>))
    /\ pc' = "stopped"
    /\ UNCHANGED <<sheet, df, extra_group_col, year_range, selected_years, color_by,
                   dff, charts, selected_categories>>

\* AfterResolve without the st.stop() of line 100.
AfterResolveNoStop(frame) == IF frame.isNone THEN "crashed" ELSE "validate"

\* lines 96-100.  df.columns of None raises AttributeError, which the
\* except ValueError clause does not catch.
AfterResolve(frame) ==
    IF frame.isNone THEN "crashed"
    ELSE IF YearSource(frame.columns) = <<>> THEN "stopped"
    ELSE "validate"

ResolveYear ==
    /\ pc = "resolve"
    /\ pc' = AfterResolve(df)
    /\ IF df.isNone
       THEN /\ messages' = Append(messages, Msg("exception", "AttributeError", <<>>))
            /\ df' = df
       ELSE IF YearSource(df.columns) = <<>>
       THEN /\ messages' = Append(messages, Msg("error", "no_year_column", <<>>))
            /\ df' = df
       ELSE /\ messages' = messages
            /\ df' = EnsureYearColumn(df)
    /\ UNCHANGED <<sheet, extra_group_col, year_range, selected_years, color_by,
                   dff, charts, selected_categories>>

\* line 102
AfterValidate(missing) == IF missing # <<>> THEN "stopped" ELSE "coerce"

Validate ==
    /\ pc = "validate"
    /\ LET missing == MissingRequired(df.columns)
       IN  /\ messages' = IF missing # <<>>
                          THEN Append(messages, Msg("error", "missing_required", missing))
                          ELSE messages
           /\ pc' = AfterValidate(missing)
    /\ UNCHANGED <<sheet, df, extra_group_col, year_range, selected_years, color_by,
                   dff, charts, selected_categories>>

\* line 103
Coerce ==
    /\ pc = "coerce"
    /\ df' = CoerceNumeric(df, Append(REQUIRED_COLS, n_year))
    /\ pc' = "detect"
    /\ UNCHANGED <<sheet, messages, extra_group_col, year_range, selected_years,
                   color_by, dff, charts, selected_categories>>

\* lines 106-110
DetectGroup ==
    /\ pc = "detect"
    /\ extra_group_col' = ExtraGroupCol(df.columns)
    /\ pc' = "years"
    /\ UNCHANGED <<sheet, df, messages, year_range, selected_years, color_by, dff,
                   charts, selected_categories>>

\* AfterYears without the empty check of lines 118-120.
AfterYearsNoCheck(frame) == "bounds"

\* lines 113-120
AfterYears(frame) == IF Len(frame.index) = 0 THEN "stopped" ELSE "bounds"

Years ==
    /\ pc = "years"
    /\ df' = YearPrep(df)
    /\ messages' = IF Len(df'.index) = 0
                   THEN Append(messages, Msg("error", "no_year_range", <<>>))
                   ELSE messages
    /\ pc' = AfterYears(df')
    /\ UNCHANGED <<sheet, extra_group_col, year_range, selected_years, color_by, dff,
                   charts, selected_categories>>

\* line 122
YearBounds(frame) == <<SeqMin(YearValues(frame)), SeqMax(YearValues(frame))>>

Bounds ==
    /\ pc = "bounds"
    /\ year_range' = YearBounds(df)
    /\ pc' = "sidebar"
    /\ UNCHANGED <<sheet, df, messages, extra_group_col, selected_years, color_by,
                   dff, charts, selected_categories>>

\* lines 124-135: the user sets the slider within its bounds and picks one of
\* the offered colour columns.
SliderChoices(range) ==
    {r \in (range[1]..range[2]) \X (range[1]..range[2]) : r[1] <= r[2]}

ColorOptions(group) == {n_year} \cup (IF group # <<>> THEN {group} ELSE {})

Sidebar ==
    /\ pc = "sidebar"
    /\ selected_years' \in SliderChoices(year_range)
    /\ color_by' \in ColorOptions(extra_group_col)
    /\ pc' = "filter"
    /\ UNCHANGED <<sheet, df, messages, extra_group_col, year_range, dff, charts,
                   selected_categories>>

\* line 138
Filter ==
    /\ pc = "filter"
    /\ dff' = RangeFilter(df, selected_years[1], selected_years[2])
    /\ pc' = "render"
    /\ UNCHANGED <<sheet, df, messages, extra_group_col, year_range, selected_years,
                   color_by, charts, selected_categories>>

\* lines 141-206: the metrics, the three charts and the preview
Render ==
    /\ pc = "render"
    /\ charts' = 3
    /\ pc' = "done"
    /\ UNCHANGED <<sheet, df, messages, extra_group_col, year_range, selected_years,
                   color_by, dff, selected_categories>>

Next ==
    \/ LoadUploaded
    \/ LoadDefault
    \/ NoInput
    \/ ResolveYear
    \/ Validate
    \/ Coerce
    \/ DetectGroup
    \/ Years
    \/ Bounds
    \/ Sidebar
    \/ Filter
    \/ Render

Spec == Init /\ [][Next]_vars

\* --------------------------------------------- the range filter on its own
\* The script from line 138 on, started on any coerced table and any slider
\* setting it offers.  A year such as 2015 reaches line 138 when the cell
\* holds the nanosecond count of a moment in 2015.
FilterYears == {2015, 2016, 2018, 2020}

CoercedTables ==
    {Frame(Append(REQUIRED_COLS, n_year),
           [i \in 1..Len(ys) |-> i - 1],
           [j \in 1..(Len(REQUIRED_COLS) + 1) |->
                IF j <= Len(REQUIRED_COLS)
                THEN [i \in 1..Len(ys) |-> IntCell(1)]
                ELSE [i \in 1..Len(ys) |-> IntCell(ys[i])]]) :
        ys \in UNION {[1..n -> FilterYears] : n \in 1..MaxRows}}

InitFilter ==
    /\ pc = "filter"
    /\ df \in CoercedTables
    /\ sheet = df
    /\ messages = <<>>
    /\ extra_group_col = <<>>
    /\ year_range = YearBounds(df)
    /\ selected_years \in SliderChoices(year_range)
    /\ color_by = n_year
    /\ dff = NoFrame
    /\ charts = 0
    /\ selected_categories = NoSelection

NextFilter ==
    \/ Filter
    \/ Render

SpecFilter == InitFilter /\ [][NextFilter]_vars

\* ------------------------------------------------- the categorical filter
\* app.py has no categorical filter; this is the one section 4.4 of the
\* specification describes, applied to the range-filtered view.
CatCell(i) == [k |-> "text", v |-> i]

CatValues == {1, 2, 3}

\* view[view[col].isin(selected)]
CategoricalFilter(view, col, selected) ==
    TakeRows(view, {i \in 1..Len(view.index) : Col(view, col)[i].v \in selected})

\* ApplyCategories that takes an empty selection for no selection.
ApplyCategoriesTruthy(view, col, sel) ==
    IF col # <<>> /\ sel.given /\ sel.values # {}
    THEN CategoricalFilter(view, col, sel.values)
    ELSE view

ApplyCategories(view, col, sel) ==
    IF col # <<>> /\ sel.given THEN CategoricalFilter(view, col, sel.values) ELSE view

CategoryViews ==
    {Frame(REQUIRED_COLS \o <<n_sector, n_year>>,
           [i \in 1..Len(cs) |-> i - 1],
           [j \in 1..(Len(REQUIRED_COLS) + 2) |->
                IF j <= Len(REQUIRED_COLS)
                THEN [i \in 1..Len(cs) |-> IntCell(1)]
                ELSE IF j = Len(REQUIRED_COLS) + 1
                THEN [i \in 1..Len(cs) |-> CatCell(cs[i])]
                ELSE [i \in 1..Len(cs) |-> IntCell(2020)]]) :
        cs \in UNION {[1..n -> CatValues] : n \in 0..MaxRows}}

InitCategory ==
    /\ pc = "category"
    /\ dff \in CategoryViews
    /\ df = dff
    /\ sheet = dff
    /\ messages = <<>>
    /\ extra_group_col = n_sector
    /\ year_range = <<2020, 2020>>
    /\ selected_years = <<2020, 2020>>
    /\ color_by = n_year
    /\ charts = 0
    /\ selected_categories \in {NoSelection} \cup {Selection(S) : S \in SUBSET CatValues}

CategoryFilter ==
    /\ pc = "category"
    /\ dff' = ApplyCategories(dff, extra_group_col, selected_categories)
    /\ pc' = "render"
    /\ UNCHANGED <<sheet, df, messages, extra_group_col, year_range, selected_years,
                   color_by, charts, selected_categories>>

NextCategory ==
    \/ CategoryFilter
    \/ Render

SpecCategory == InitCategory /\ [][NextCategory]_vars

\* ------------------------------------------------------------------ claims
\* The year-like names of the inputs by the rule that makes them year-like.
NamedYear == {n_year, n_Year}
NamedGod == {n_God}
NamedDate == {n_Date}
NamedBySubstring == {n_tax_year, n_gody}

Positions(columns, names) == {i \in 1..Len(columns) : columns[i] \in names}

HasYearLike(columns) ==
    Positions(columns, NamedYear \cup NamedGod \cup NamedDate \cup NamedBySubstring) # {}

Unset ==
    /\ extra_group_col = <<>>
    /\ year_range = <<>>
    /\ selected_years = <<>>
    /\ color_by = <<>>
    /\ dff = NoFrame
    /\ charts = 0

\* C1: right after _ensure_year_column the "year" column is the parse of a
\* column named "year" in any case; when the sheet has none, of one named
\* "год"; when it has none either, the calendar year of one named "date";
\* and otherwise the numeric parse of the leftmost column whose lowercased
\* name contains "year" or "год", wherever the columns stand in the sheet.
C1_YearSourcePriority ==
    pc = "validate" =>
        LET cols == sheet.columns
            year == Col(df, n_year)
            Y == Positions(cols, NamedYear)
            G == Positions(cols, NamedGod)
            D == Positions(cols, NamedDate)
            S == Positions(cols, NamedBySubstring)
        IN  IF Y # {}
            THEN \E i \in Y : year = MapCells(ToNumericCell, sheet.data[i])
            ELSE IF G # {}
            THEN \E i \in G : year = MapCells(ToNumericCell, sheet.data[i])
            ELSE IF D # {}
            THEN \E i \in D : year = MapCells(ToDatetimeYearCell, sheet.data[i])
            ELSE /\ S # {}
                 /\ \E i \in S :
                      /\ \A j \in S : i <= j
                      /\ year = MapCells(ToNumericCell, sheet.data[i])

\* C1 witness: a substring-matched column stands left of "Год", and the year
\* column is the parse of "Год", which differs from the parse of the other.
C1_Witness ==
    /\ pc = "validate"
    /\ InSeq(n_tax_year, sheet.columns)
    /\ InSeq(n_God, sheet.columns)
    /\ ColPos(sheet.columns, n_tax_year) < ColPos(sheet.columns, n_God)
    /\ Col(df, n_year) = MapCells(ToNumericCell, Col(sheet, n_God))
    /\ Col(df, n_year) # MapCells(ToNumericCell, Col(sheet, n_tax_year))

\* C4: a sheet without any year-like column ends the run at line 100 with
\* the one missing-year error; df is as loaded and nothing later was computed.
C4_NoYearColumnHalts ==
    (~sheet.isNone /\ pc # "resolve" /\ ~HasYearLike(sheet.columns)) =>
        /\ pc = "stopped"
        /\ messages = <<Msg("error", "no_year_column", <<>>)>>
        /\ df = sheet
        /\ Unset

\* C4 witness: a sheet with rows and all three required columns, stopped for
\* want of a year column.
C4_Witness ==
    /\ pc = "stopped"
    /\ ~sheet.isNone
    /\ ~HasYearLike(sheet.columns)
    /\ sheet.columns = REQUIRED_COLS
    /\ Len(sheet.index) > 0

ExpectedMissing == SelectSeq(REQUIRED_COLS, LAMBDA c : ~InSeq(c, sheet.columns))

\* C3: with a year column resolved, a sheet lacking required columns ends the
\* run at line 65 with one error that lists the missing names in the order of
\* REQUIRED_COLS; df is as _ensure_year_column left it, without the missing
\* columns, and nothing later was computed.  A sheet with all three gets no
\* such error.
C3_MissingRequiredHalts ==
    (~sheet.isNone /\ pc \notin {"resolve", "validate"} /\ HasYearLike(sheet.columns)) =>
        IF ExpectedMissing # <<>>
        THEN /\ pc = "stopped"
             /\ messages = <<Msg("error", "missing_required", ExpectedMissing)>>
             /\ df = EnsureYearColumn(sheet)
             /\ \A i \in 1..Len(ExpectedMissing) : ~InSeq(ExpectedMissing[i], df.columns)
             /\ Unset
        ELSE \A i \in 1..Len(messages) : messages[i].text # "missing_required"

\* C3 witness: stopped with two names reported, in the order of REQUIRED_COLS.
C3_Witness ==
    /\ pc = "stopped"
    /\ messages = <<Msg("error", "missing_required", <<n_real_GVA, n_real_subsidies>>)>>

AfterYearsStep == pc \in {"bounds", "sidebar", "filter", "render", "done"}

\* The rows of frame at the positions of keep, as the labels they have in a
\* RangeIndex.
LabelsOf(keep, n) == [j \in 1..Len(SelectIdx(n, keep)) |-> SelectIdx(n, keep)[j] - 1]

\* C2: for a sheet whose year source is parsed as a number, the year column
\* the range filter receives holds, in sheet order, the numbers parsed from the
\* source column, and the rows it lacks are those whose cell did not parse.
C2_FinalYearIsNumericParse ==
    (AfterYearsStep /\ YearSource(sheet.columns)[2] = "numeric") =>
        LET parsed == MapCells(ToNumericCell, Col(sheet, YearSource(sheet.columns)[1]))
            keep == {i \in 1..Len(parsed) : parsed[i].k = "int"}
            pos == SelectIdx(Len(parsed), keep)
        IN  /\ df.index = LabelsOf(keep, Len(parsed))
            /\ Col(df, n_year) = [j \in 1..Len(pos) |-> parsed[pos[j]]]

\* C7: a run reports at most one fatal condition, never ends in an uncaught
\* exception, and is stopped with nothing later computed once the statement
\* after the report is reached.
C7_FatalReportedOnceThenHalt ==
    /\ pc # "crashed"
    /\ Len(messages) <= 1
    /\ (messages # <<>> /\ pc # "resolve") => (pc = "stopped" /\ dff = NoFrame /\ charts = 0)

AfterDetectStep ==
    \/ AfterYearsStep
    \/ pc = "years"
    \/ pc = "stopped" /\ messages = <<Msg("error", "no_year_range", <<>>)>>

\* The earliest name of order that is a column, <<>> when none is.
EarliestIn(order, columns) ==
    IF \A i \in 1..Len(order) : ~InSeq(order[i], columns) THEN <<>>
    ELSE order[CHOOSE i \in 1..Len(order) :
                   /\ InSeq(order[i], columns)
                   /\ \A j \in 1..(i - 1) : ~InSeq(order[j], columns)]

ClaimedOrder == <<n_industry, n_sector, n_region, n_otrasl, n_region_ru>>
AmendedOrder == <<n_industry, n_region, n_sector, n_otrasl, n_region_ru>>

\* C8 as stated: the grouping column is the earliest present one in the
\* order industry, sector, region, then the localized names; without any, none
\* is selected and no error is reported.
C8_ClaimedCandidateOrder ==
    AfterDetectStep =>
        /\ extra_group_col = EarliestIn(ClaimedOrder, sheet.columns)
        /\ pc = "years" => messages = <<>>

\* C8 amended: the same with the order industry, region, sector, then the
\* localized names: a sheet with both "sector" and "region" selects "region".
C8_CodeCandidateOrder ==
    AfterDetectStep =>
        /\ extra_group_col = EarliestIn(AmendedOrder, sheet.columns)
        /\ pc = "years" => messages = <<>>

\* C8 witness: a sheet with "sector" and "region", "region" selected.
C8_Witness ==
    /\ pc = "years"
    /\ InSeq(n_sector, sheet.columns)
    /\ InSeq(n_region, sheet.columns)
    /\ extra_group_col = n_region

\* C9: from line 117 on every row has a year that is a number, and from line
\* 122 on year_min and year_max are the least and the greatest year of that
\* table, year_min <= year_max.
C9_YearBoundsOfCoercedTable ==
    AfterYearsStep =>
        LET year == Col(df, n_year) IN
        /\ \A i \in 1..Len(year) : year[i].k = "int"
        /\ pc # "bounds" =>
             /\ \E i \in 1..Len(year) : year[i].v = year_range[1]
             /\ \E i \in 1..Len(year) : year[i].v = year_range[2]
             /\ \A i \in 1..Len(year) : year_range[1] <= year[i].v /\ year[i].v <= year_range[2]
             /\ year_range[1] <= year_range[2]

\* C9 witness: a row was dropped for its year, and the bounds are those of
\* the remaining years and differ from each other.
C9_Witness ==
    /\ pc = "sidebar"
    /\ Len(df.index) < Len(sheet.index)
    /\ year_range[1] < year_range[2]

Validated == ~sheet.isNone /\ HasYearLike(sheet.columns) /\ ExpectedMissing = <<>>

C5_RangeFilterExact ==
    pc \in {"render", "done"} =>
        LET lo == selected_years[1]
            hi == selected_years[2]
            year == Col(df, n_year)
            keep == {i \in 1..Len(year) : lo <= year[i].v /\ year[i].v <= hi}
        IN  /\ dff.columns = df.columns
            /\ \A j \in 1..Len(dff.index) :
                   lo <= Col(dff, n_year)[j].v /\ Col(dff, n_year)[j].v <= hi
            /\ {dff.index[j] : j \in 1..Len(dff.index)} = {df.index[i] : i \in keep}
            /\ Len(dff.index) = Cardinality(keep)
            /\ \A j \in 1..Len(dff.index), k \in 1..Len(dff.index) :
                   j < k => dff.index[j] < dff.index[k]
            /\ \A j \in 1..Len(dff.index) : \E i \in keep :
                   /\ df.index[i] = dff.index[j]
                   /\ \A c \in 1..Len(df.columns) : dff.data[c][j] = df.data[c][i]

\* C5 witness: a view that keeps a row of the table and leaves one out.
C5_Witness ==
    /\ pc = "render"
    /\ Len(dff.index) > 0
    /\ Len(dff.index) < Len(df.index)

\* C6: with a grouping column and a selection given, the view holds the rows
\* whose value is selected and no others, in order; an empty selection, or
\* one that matches no row, gives the empty view, and no error is reported.
C6_CategoricalFilterExact ==
    (pc \in {"render", "done"} /\ extra_group_col # <<>> /\ selected_categories.given) =>
        LET cat == Col(df, extra_group_col)
            keep == {i \in 1..Len(cat) : cat[i].v \in selected_categories.values}
        IN  /\ dff.index = [j \in 1..Len(SelectIdx(Len(cat), keep)) |->
                               df.index[SelectIdx(Len(cat), keep)[j]]]
            /\ \A j \in 1..Len(dff.index) :
                   Col(dff, extra_group_col)[j].v \in selected_categories.values
            /\ selected_categories.values = {} => Len(dff.index) = 0
            /\ messages = <<>>

\* C6 witness: rows of two categories, one of them selected, one row kept.
C6_Witness ==
    /\ pc = "render"
    /\ selected_categories = Selection({2})
    /\ Len(df.index) = 2
    /\ Len(dff.index) = 1

====
